---- MODULE Spec2Model ----
(***************************************************************************)
(* pylean: LeanInstance (src/pylean/lean.py) and LeanEnv                   *)
(* (src/pylean/env.py).                                                    *)
(*                                                                         *)
(* The caller's thread runs init_search / run_stmt / run_batch /           *)
(* clear_search (and LeanEnv.reset / LeanEnv.step on top of them).  A call *)
(* writes its command(s) to the lean process and then blocks in            *)
(* message_queue.get(); every blocking read is one step of the model.  The *)
(* lean process is an external program: it answers each command it was     *)
(* sent with a reply of that command's shape whose state id and text the   *)
(* model does not constrain, or with an error, possibly after some extra   *)
(* lines, and the pump thread (run) puts each line on message_queue.       *)
(***************************************************************************)
EXTENDS Integers, Sequences, FiniteSets, TLC

\* ---------------------------------------------------------------- bounds
MaxTactics == 2   \* run_tac commands written
MaxExtra == 2     \* lines the process prints ahead of an answer
MaxPending == 2   \* commands and lines in flight when calls do not wait for earlier ones
MaxLines == 3     \* lines the process writes while the pump thread is followed step by step

SearchIds == {0, 1}
StateIds == {0, 1}
Tactics == {"tac_a", "tac_b"}
ErrMsgs == {"err"}
Decls == {"thm"}
NoGoals == "no goals"
Texts == {"goal", NoGoals}

\* ---------------------------------------------------------------- values
\* A Python value that is an identifier: the int n, the str of n's digits, or None.
Num(n) == <<"num", n>>
Txt(n) == <<"txt", n>>
NoneId == <<"none", 0>>
\* None where a str is expected (error, tactic_state).
NoneStr == "None"

\* int(v): the number for an int and for a str of digits, TypeError for None.
CanInt(v) == v[1] \in {"num", "txt"}
ToInt(v) == v[2]
\* f'"{v}"': the digits, whatever the type was.
Format(v) == v[2]

\* dicts
EmptyMap == [x \in {} |-> 0]
Put(d, k, v) == [x \in (DOMAIN d) \cup {k} |-> IF x = k THEN v ELSE d[x]]
Del(d, k) == [x \in (DOMAIN d) \ {k} |-> d[x]]
\* `key in d` for a dict whose keys are ints: a str never equals an int.
KeyIn(key, d) == key[1] = "num" /\ key[2] \in DOMAIN d

\* ---------------------------------------------------------------- lines
\* A line the pump put on the queue: a diagnostic that contains 'warning:' and
\* is no JSON, or a JSON reply object.
Line(kind, error, search_id, tactic_state_id, tactic_state) ==
    [kind |-> kind, error |-> error, search_id |-> search_id,
     tactic_state_id |-> tactic_state_id, tactic_state |-> tactic_state]
WarningLine == Line("warning", NoneStr, NoneId, NoneId, NoneStr)
NoLine == Line("none", NoneStr, NoneId, NoneId, NoneStr)
Success(search_id, tactic_state_id, tactic_state) ==
    Line("json", NoneStr, search_id, tactic_state_id, tactic_state)
Error(error, search_id) == Line("json", error, search_id, NoneId, NoneStr)
\* The reply that ends clear_search: error, tactic_state and tactic_state_id null.
Terminal(search_id) == Line("json", NoneStr, search_id, NoneId, NoneStr)

\* A check for 'warning:' that no line passes: nothing is skipped.
NothingSkipped(l) == FALSE
\* 'warning:' in line (lean.py:50).  The warning lines are the lines of the model
\* that contain it: the texts and error messages of its replies do not.
ContainsWarning(l) == l.kind = "warning"
\* json.loads(line) succeeds
IsJson(l) == l.kind = "json"

\* ---------------------------------------------------------------- state
VARIABLES
    proof_searchs,   \* search_id -> session (lean.py:33)
    hist,            \* _hist: set of (search_id, state_id, tactic) (lean.py:35)
    message_queue,   \* lines the pump has put and the caller has not taken (lean.py:39)
    fin,             \* commands written to the process and not yet answered
    n_extra,         \* lines printed since the last answer
    n_searches,      \* searches the process has started: the id of its next one
    n_run_tac,       \* run_tac commands written so far
    call,            \* the caller's call in progress and its local variables
    ret,             \* how the caller's last call ended
    n_success,       \* per search id: success replies recorded since the session was created
    env,             \* LeanEnv.search_id and LeanEnv._init_obs
    returned,        \* first: (search_id, state_id, tactic) -> the (id, text) run_stmt
                     \* first returned for it, for the sessions in the store; kept
                     \* when tracked.  calls: whether a call keeps the store and
                     \* the command of its start
    pump             \* the process, the stop semaphore and the pump thread

vars == <<proof_searchs, hist, message_queue, fin, n_extra, n_searches, n_run_tac, call, ret, n_success, env, returned, pump>>

\* The session init_search stores (lean.py:63-75).
NewSearch(decl, tactic_state_id, tactic_state) ==
    [decl |-> decl,
     states |-> Put(EmptyMap, tactic_state_id,
                    [id_prev |-> <<>>, state |-> tactic_state,
                     tactic_to_next_id |-> EmptyMap]),
     n_failed_tactics |-> 0,
     n_total_tactics |-> 0,
     failed_tactics |-> EmptyMap]

\* What a call that raises or returns leaves behind: the exception ("none" when
\* the call returned) and the store.
Outcome(exc, ps, h) == [exc |-> exc, ps |-> ps, hist |-> h]

\* The success branch without line 165: the successor is recorded, the edge
\* to it is not.
UpdateSuccessNoEdge(ps, h, search_id, state_id_previous, tactic, result) ==
    IF ~CanInt(result.tactic_state_id) THEN Outcome("TypeError", ps, h)
    ELSE IF ~KeyIn(search_id, ps) THEN Outcome("KeyError", ps, h)
    ELSE IF ~KeyIn(state_id_previous, ps[search_id[2]].states)
         THEN Outcome("KeyError", ps, h)
    ELSE
      LET sid == search_id[2]
          prev == state_id_previous[2]
          state_id == ToInt(result.tactic_state_id)
          s1 == ps[sid].states
          s2 == IF state_id \notin DOMAIN s1
                THEN Put(s1, state_id,
                         [id_prev |-> <<prev>>, state |-> result.tactic_state,
                          tactic_to_next_id |-> EmptyMap])
                ELSE [s1 EXCEPT ![state_id].id_prev = Append(@, prev),
                                ![state_id].state = result.tactic_state]
      IN Outcome("none",
                 [ps EXCEPT ![sid].states = s2,
                            ![sid].n_total_tactics = @ + 1],
                 h \cup {<<sid, prev, tactic>>})

\* update_proof_search (lean.py:158-179).  search_id and state_id_previous are
\* the values the caller passed; the dict lookups raise KeyError before anything
\* is written.
UpdateSuccess(ps, h, search_id, state_id_previous, tactic, result) ==
    IF ~CanInt(result.tactic_state_id) THEN Outcome("TypeError", ps, h)
    ELSE IF ~KeyIn(search_id, ps) THEN Outcome("KeyError", ps, h)
    ELSE IF ~KeyIn(state_id_previous, ps[search_id[2]].states)
         THEN Outcome("KeyError", ps, h)
    ELSE
      LET sid == search_id[2]
          prev == state_id_previous[2]
          state_id == ToInt(result.tactic_state_id)
          states == ps[sid].states
          s1 == [states EXCEPT ![prev].tactic_to_next_id = Put(@, tactic, state_id)]
          s2 == IF state_id \notin DOMAIN s1
                THEN Put(s1, state_id,
                         [id_prev |-> <<prev>>, state |-> result.tactic_state,
                          tactic_to_next_id |-> EmptyMap])
                ELSE [s1 EXCEPT ![state_id].id_prev = Append(@, prev),
                                ![state_id].state = result.tactic_state]
      IN Outcome("none",
                 [ps EXCEPT ![sid].states = s2,
                            ![sid].n_total_tactics = @ + 1],
                 h \cup {<<sid, prev, tactic>>})

\* The failure branch with line 179 moved into the success branch: a failed
\* tactic is not counted in n_total_tactics.
UpdateFailureUncounted(ps, h, search_id, tactic, result) ==
    IF ~KeyIn(search_id, ps) THEN Outcome("KeyError", ps, h)
    ELSE
      LET sid == search_id[2]
      IN Outcome("none",
                 [ps EXCEPT ![sid].n_failed_tactics = @ + 1,
                            ![sid].failed_tactics = Put(@, tactic, result.error)],
                 h)

UpdateFailure(ps, h, search_id, tactic, result) ==
    IF ~KeyIn(search_id, ps) THEN Outcome("KeyError", ps, h)
    ELSE
      LET sid == search_id[2]
      IN Outcome("none",
                 [ps EXCEPT ![sid].n_failed_tactics = @ + 1,
                            ![sid].failed_tactics = Put(@, tactic, result.error),
                            ![sid].n_total_tactics = @ + 1],
                 h)

update_proof_search(ps, h, search_id, state_id_previous, tactic, result) ==
    IF result.error = NoneStr
    THEN UpdateSuccess(ps, h, search_id, state_id_previous, tactic, result)
    ELSE UpdateFailure(ps, h, search_id, tactic, result)

\* _cached_result (lean.py:181-192): the reply rebuilt from the tree; KeyError
\* when the session, the state, the edge or the successor is not there.
CachedResultExists(ps, search_id, state_id, tactic) ==
    /\ KeyIn(search_id, ps)
    /\ KeyIn(state_id, ps[search_id[2]].states)
    /\ tactic \in DOMAIN ps[search_id[2]].states[state_id[2]].tactic_to_next_id
    /\ ps[search_id[2]].states[state_id[2]].tactic_to_next_id[tactic]
          \in DOMAIN ps[search_id[2]].states
cached_result(ps, search_id, state_id, tactic) ==
    LET states == ps[search_id[2]].states
        id_next == states[state_id[2]].tactic_to_next_id[tactic]
    IN Line("json", NoneStr, search_id, Num(id_next), states[id_next].state)

\* (search_id, state_id, tactic) in self._hist (lean.py:85)
InHist(h, search_id, state_id, tactic) ==
    /\ search_id[1] = "num" /\ state_id[1] = "num"
    /\ <<search_id[2], state_id[2], tactic>> \in h

\* ---------------------------------------------------------------- calls
\* A command as the process reads it: ids are formatted into the text.
Cmd(name, search_id, state_id, text) ==
    [name |-> name, search_id |-> search_id, state_id |-> state_id, text |-> text]

\* The caller is between calls.
Idle ==
    [op |-> "idle", via |-> "api", search_id |-> NoneId, state_id |-> NoneId,
     tactic |-> "", ids_map |-> <<>>, output |-> EmptyMap, n_left |-> 0,
     n_msgs |-> 0, n_warn |-> 0, reads |-> 0, writes |-> 0, first |-> NoneId,
     ahead |-> 0, cmds |-> <<>>, before |-> EmptyMap]

\* _observation_from_run_stmt (env.py:172-177): observation, reward, done of a reply.
FailedObs == [obs_id |-> -1, obs_text |-> "", reward |-> 0, done |-> FALSE]
observation_from_run_stmt(info) ==
    IF info.error = NoneStr
    THEN [obs_id |-> ToInt(info.tactic_state_id), obs_text |-> info.tactic_state,
          reward |-> IF info.tactic_state = NoGoals THEN 1 ELSE 0,
          done |-> info.tactic_state = NoGoals]
    ELSE FailedObs

\* The arguments of the exception a call raises, where the code raises it
\* itself: queue.Empty("Command time out") (lean.py:225) and
\* LeanException("Lean process unexpectedly quit.") (lean.py:200).
ExcArgs(exc) ==
    IF exc = "Empty" THEN << <<"Command time out">> >>
    ELSE IF exc = "LeanException" THEN << <<"Lean process unexpectedly quit.">> >>
    ELSE <<>>
\* A command as a value an exception could hold: its name and its arguments.
CmdText(cmd) == <<cmd.name, cmd.search_id, cmd.state_id, cmd.text>>

\* How call c ended: exc is the exception raised ("none": it returned value, and
\* run_batch returned output) and args its arguments; ids_map is what was left
\* of a batch's correlation map, first the search_id of the first reply a batch
\* read.
Ended(c, exc, value, output) ==
    [op |-> c.op, via |-> c.via, exc |-> exc, args |-> ExcArgs(exc),
     value |-> value, output |-> output,
     ids_map |-> c.ids_map, first |-> c.first,
     state_id |-> IF c.via = "step" THEN c.state_id ELSE NoneId,
     tactic |-> IF c.via = "step" THEN c.tactic ELSE "",
     n_warn |-> c.n_warn, n_msgs |-> c.n_msgs, reads |-> c.reads, writes |-> c.writes,
     obs |-> IF c.via = "step" /\ exc = "none"
             THEN observation_from_run_stmt(value) ELSE FailedObs]

\* A call starts: what the last one returned is gone.
NoRet == Ended(Idle, "none", NoLine, EmptyMap)

\* The process is running, the semaphore is at 0 and the pump thread is at the
\* head of its loop (lean.py:21, 25-29, 42).  kill is where kill() is, pipe the
\* lines the process has written and the pump has not read, emitted how many
\* lines it has written, taken the lines the caller has taken off the queue.
Started ==
    [alive |-> TRUE, sema |-> 0, pc |-> "acquire", kill |-> "no",
     pipe |-> <<>>, emitted |-> 0, taken |-> <<>>]

\* LeanInstance.__init__ (lean.py:15-42) and LeanEnv.__init__.
Constructed ==
    /\ proof_searchs = EmptyMap
    /\ hist = {}
    /\ message_queue = <<>>
    /\ fin = <<>>
    /\ n_extra = 0
    /\ n_searches = 0
    /\ n_run_tac = 0
    /\ call = Idle
    /\ ret = NoRet
    /\ n_success = [s \in SearchIds |-> 0]
    /\ env = [search_id |-> NoneId, init_obs |-> <<-1, "">>]
    /\ pump = Started

Init ==
    /\ Constructed
    /\ returned = [tracked |-> FALSE, first |-> EmptyMap, calls |-> FALSE]

\* _send_flush (lean.py:194-200): the command reaches the process.
send_flush(f, cmd) == Append(f, cmd)
\* Nothing is in flight: every command was answered and every line taken.
Quiet == fin = <<>> /\ message_queue = <<>>
\* Call c starts by writing cmds.  ahead is how many commands and lines of
\* earlier calls are still in flight; the commands and the store of the start
\* are kept in the call when returned.calls says so.
Starting(c, cmds) ==
    [c EXCEPT !.ahead = Len(fin) + Len(message_queue),
              !.cmds = IF returned.calls THEN cmds ELSE <<>>,
              !.before = IF returned.calls THEN proof_searchs ELSE EmptyMap]

\* ------------------------------------------------- the process and the pump
Fmts == {"num", "txt"}
\* What the process may answer to a command: a reply of the command's shape,
\* or an error.  lean-gym numbers its searches from 0, a search starts in state
\* 0 with a goal to prove, and the reply to a run_tac or clear_search echoes
\* the search id of the command; ids are written as text or as numbers (fmts).
\* The state id and the text of a run_tac reply are not constrained.
Answers(cmd, fmts) ==
    IF cmd.name = "init_search"
    THEN { Success(<<f, n_searches>>, Txt(0), "goal") :
              f \in IF n_searches \in SearchIds THEN fmts ELSE {} }
         \cup { Error(e, NoneId) : e \in ErrMsgs }
    ELSE IF cmd.name = "run_tac"
    THEN { Success(<<f, cmd.search_id>>, Txt(i), t) :
              f \in fmts, i \in StateIds, t \in Texts }
         \cup { Error(e, s) : e \in ErrMsgs, s \in {NoneId, Txt(cmd.search_id)} }
    ELSE { Terminal(Txt(cmd.search_id)) } \cup { Error(e, NoneId) : e \in ErrMsgs }
\* What it may print ahead of the answer to a command: warnings ahead of the
\* handshake reply, replies that are not the terminal one (an error, a tactic
\* state) ahead of the reply that ends clear_search.
ExtraLines(cmd) ==
    IF cmd.name = "init_search" THEN {WarningLine}
    ELSE IF cmd.name = "clear_search"
    THEN { Error(e, NoneId) : e \in ErrMsgs }
         \cup { Success(Txt(cmd.search_id), Txt(0), "goal") }
    ELSE {}

RemoveAt(q, i) == [j \in 1..(Len(q) - 1) |-> IF j < i THEN q[j] ELSE q[j + 1]]

\* The process answers one of the commands it holds and the pump (run,
\* lean.py:202-211) puts the line on the queue.
LeanAnswer(i, l) ==
    /\ pump.alive
    /\ i \in 1..Len(fin)
    /\ message_queue' = Append(message_queue, l)
    /\ fin' = RemoveAt(fin, i)
    /\ n_extra' = 0
    /\ n_searches' = IF fin[i].name = "init_search" /\ l.error = NoneStr
                     THEN n_searches + 1 ELSE n_searches
    /\ UNCHANGED <<proof_searchs, hist, n_run_tac, call, ret, n_success, env, returned, pump>>

\* The process prints a line ahead of an answer and the pump puts it on the queue.
LeanExtra(l) ==
    /\ pump.alive
    /\ fin # <<>>
    /\ l \in ExtraLines(fin[1])
    /\ n_extra < MaxExtra
    /\ message_queue' = Append(message_queue, l)
    /\ n_extra' = n_extra + 1
    /\ UNCHANGED <<proof_searchs, hist, fin, n_run_tac, n_searches, call, ret, n_success, env, returned, pump>>

\* _get_message (lean.py:219-225): nothing arrived within the timeout, the call
\* in progress ends with queue.Empty.
Timeout ==
    /\ call.op # "idle"
    /\ message_queue = <<>>
    /\ ret' = Ended(call, "Empty", NoLine, EmptyMap)
    /\ call' = Idle
    /\ UNCHANGED <<proof_searchs, hist, message_queue, fin, n_extra, n_run_tac, n_searches, n_success, env, returned, pump>>

\* kill (lean.py:213-217), called between two calls: the process is terminated
\* and the semaphore released.
Kill ==
    /\ call.op = "idle"
    /\ pump.kill = "no"
    /\ pump' = [pump EXCEPT !.alive = FALSE, !.sema = @ + 1, !.kill = "returned"]
    /\ UNCHANGED <<proof_searchs, hist, message_queue, fin, n_extra, n_run_tac, n_searches, call, ret, n_success, env, returned>>

\* _send_flush (lean.py:194-200) after the process has gone: the write raises
\* BrokenPipeError and the call (op) ends with LeanException, nothing written.
\* A write that reaches the pipe before the process is gone is the send of the
\* operation itself: no answer follows it.
SendBroken(op) ==
    /\ call.op = "idle"
    /\ ~pump.alive
    /\ ret' = Ended([Idle EXCEPT !.op = op], "LeanException", NoLine, EmptyMap)
    /\ UNCHANGED <<proof_searchs, hist, message_queue, fin, n_extra, n_run_tac, n_searches, call, n_success, env, returned, pump>>

\* ------------------------------------------------- the pump thread, step by step
\* Everything but the queue and the pump.
store == <<proof_searchs, hist, fin, n_extra, n_searches, n_run_tac, call, ret, n_success, env, returned>>

\* A line of the process's output: the n-th it wrote, a reply or a line with
\* nothing but white space (a bare newline).
Output(kind, n) == [kind |-> kind, n |-> n]
\* line.strip() == '' (lean.py:209)
Blank(line) == line.kind = "blank"

\* The process writes a line to its standard output.
LeanWrites(kind) ==
    /\ pump.alive
    /\ pump.emitted < MaxLines
    /\ pump' = [pump EXCEPT !.pipe = Append(@, Output(kind, pump.emitted + 1)),
                            !.emitted = @ + 1]
    /\ UNCHANGED <<message_queue, store>>

\* The process ends by itself: its end of the pipe is closed.
LeanExits ==
    /\ pump.alive
    /\ pump' = [pump EXCEPT !.alive = FALSE]
    /\ UNCHANGED <<message_queue, store>>

\* run (lean.py:204): the loop test, self.__sema.acquire(False).
PumpAcquire ==
    /\ pump.pc = "acquire"
    /\ pump' = IF pump.sema > 0
               THEN [pump EXCEPT !.sema = @ - 1, !.pc = "done"]
               ELSE [pump EXCEPT !.pc = "readline"]
    /\ UNCHANGED <<message_queue, store>>

\* run (lean.py:205-211): readline returns the next line of the pipe, or '' when
\* the pipe is empty and closed, and blocks while it is empty and open; a line
\* that is empty after strip() ends the loop, any other line is put on the queue.
PumpReadline ==
    /\ pump.pc = "readline"
    /\ \/ /\ pump.pipe # <<>>
          /\ IF Blank(Head(pump.pipe))
             THEN /\ pump' = [pump EXCEPT !.pipe = Tail(@), !.pc = "done"]
                  /\ message_queue' = message_queue
             ELSE /\ pump' = [pump EXCEPT !.pipe = Tail(@), !.pc = "acquire"]
                  /\ message_queue' = Append(message_queue, Head(pump.pipe))
       \/ /\ pump.pipe = <<>>
          /\ ~pump.alive
          /\ pump' = [pump EXCEPT !.pc = "done"]
          /\ message_queue' = message_queue
    /\ UNCHANGED store

\* kill without lines 215-216: the process is left running.
KillWithoutTerminate ==
    /\ pump.kill = "no"
    /\ pump' = [pump EXCEPT !.kill = "terminated"]
    /\ UNCHANGED <<message_queue, store>>

\* kill (lean.py:215-216): terminate() and kill() of the process.
KillTerminate ==
    /\ pump.kill = "no"
    /\ pump' = [pump EXCEPT !.alive = FALSE, !.kill = "terminated"]
    /\ UNCHANGED <<message_queue, store>>

\* kill (lean.py:217): the semaphore is released and kill returns.
KillRelease ==
    /\ pump.kill = "terminated"
    /\ pump' = [pump EXCEPT !.sema = @ + 1, !.kill = "returned"]
    /\ UNCHANGED <<message_queue, store>>

\* _get_message (lean.py:219-225): the caller takes the oldest line of the queue.
GetMessage ==
    /\ message_queue # <<>>
    /\ message_queue' = Tail(message_queue)
    /\ pump' = [pump EXCEPT !.taken = Append(@, Head(message_queue))]
    /\ UNCHANGED store

\* When the replies are tracked, what run_stmt returned for a triple is
\* remembered the first time, and forgotten with the session.
Remember(r, search_id, state_id, tactic, result) ==
    LET k == <<search_id[2], state_id[2], tactic>>
    IN IF ~r.tracked \/ k \in DOMAIN r.first THEN r
       ELSE [r EXCEPT !.first = Put(@, k, <<ToInt(result.tactic_state_id),
                                           result.tactic_state>>)]
Forget(r, sid) ==
    [r EXCEPT !.first = [k \in {x \in DOMAIN r.first : x[1] # sid} |-> r.first[k]]]

\* ---------------------------------------------------------------- init_search
\* lean.py:48: the command is written, the call waits for the first line.
InitSearchSend(via) ==
    /\ call.op = "idle"
    /\ fin' = send_flush(fin, Cmd("init_search", -1, -1, "thm"))
    /\ call' = Starting([Idle EXCEPT !.op = "init_search", !.via = via, !.writes = 1],
                         <<Cmd("init_search", -1, -1, "thm")>>)
    /\ ret' = NoRet
    /\ UNCHANGED <<proof_searchs, hist, message_queue, n_extra, n_run_tac, n_searches, n_success, env, returned, pump>>

\* lean.py:61-77 without the test of line 60: the ids of every reply are
\* converted and a session is stored for it.
InitSearchStoreAlways(ps, h, result) ==
    IF ~CanInt(result.search_id) \/ ~CanInt(result.tactic_state_id)
    THEN Outcome("TypeError", ps, h)
    ELSE Outcome("none",
                 Put(ps, ToInt(result.search_id),
                     NewSearch("thm", ToInt(result.tactic_state_id), result.tactic_state)),
                 h)

\* lean.py:60-77 on the decoded reply.
InitSearchStore(ps, h, result) ==
    IF result.error # NoneStr THEN Outcome("none", ps, h)
    ELSE IF ~CanInt(result.search_id) \/ ~CanInt(result.tactic_state_id)
         THEN Outcome("TypeError", ps, h)
    ELSE Outcome("none",
                 Put(ps, ToInt(result.search_id),
                     NewSearch("thm", ToInt(result.tactic_state_id), result.tactic_state)),
                 h)

\* reset (env.py:106-113) on what init_search returned.
ResetEnv(e, info) ==
    IF info.error = NoneStr
    THEN [search_id |-> Num(ToInt(info.search_id)),
          init_obs |-> <<ToInt(info.tactic_state_id), info.tactic_state>>]
    ELSE [e EXCEPT !.init_obs = <<-1, "">>]

\* lean.py:49-52: one line is taken; a line containing 'warning:' is skipped and
\* the call waits for the next one, any other line is decoded as the reply.
InitSearchRecv ==
    /\ call.op = "init_search"
    /\ message_queue # <<>>
    /\ LET msg == Head(message_queue)
           c == [call EXCEPT !.reads = @ + 1]
           out == IF IsJson(msg) THEN InitSearchStore(proof_searchs, hist, msg)
                  ELSE Outcome("JSONDecodeError", proof_searchs, hist)
           created == out.exc = "none" /\ msg.error = NoneStr
       IN /\ message_queue' = Tail(message_queue)
          /\ IF ContainsWarning(msg)
             THEN /\ call' = [c EXCEPT !.n_warn = @ + 1]
                  /\ UNCHANGED <<proof_searchs, ret, n_success, env, returned>>
             ELSE /\ call' = Idle
                  /\ proof_searchs' = out.ps
                  /\ ret' = Ended(c, out.exc, IF out.exc = "none" THEN msg ELSE NoLine,
                                  EmptyMap)
                  /\ n_success' = IF created
                                  THEN [n_success EXCEPT ![ToInt(msg.search_id)] = 0]
                                  ELSE n_success
                  /\ returned' = IF created THEN Forget(returned, ToInt(msg.search_id))
                                 ELSE returned
                  /\ env' = IF call.via = "reset" /\ out.exc = "none"
                            THEN ResetEnv(env, msg) ELSE env
    /\ UNCHANGED <<hist, fin, n_extra, n_run_tac, n_searches, pump>>

\* ---------------------------------------------------------------- run_stmt
\* n more run_tac commands stay within MaxTactics.
WithinBudget(n) == n_run_tac + n <= MaxTactics

\* The success replies update_proof_search recorded when it turned ps into out.ps.
Recorded(n, out, search_id, result) ==
    IF out.exc = "none" /\ result.error = NoneStr
    THEN [n EXCEPT ![search_id[2]] = @ + 1] ELSE n

\* The cached path followed by line 90: the reply rebuilt from the tree is given
\* to update_proof_search like a reply of the process.
RunStmtCachedApplied(via, search_id, state_id, tactic) ==
    /\ call.op = "idle"
    /\ InHist(hist, search_id, state_id, tactic)
    /\ LET c == [Idle EXCEPT !.op = "run_stmt", !.via = via, !.search_id = search_id,
                             !.state_id = state_id, !.tactic = tactic]
           result == cached_result(proof_searchs, search_id, state_id, tactic)
           out == update_proof_search(proof_searchs, hist, search_id, state_id,
                                      tactic, result)
       IN IF CachedResultExists(proof_searchs, search_id, state_id, tactic)
          THEN /\ ret' = Ended(c, out.exc, result, EmptyMap)
               /\ proof_searchs' = out.ps
               /\ n_success' = Recorded(n_success, out, search_id, result)
               /\ returned' = Remember(returned, search_id, state_id, tactic, result)
          ELSE /\ ret' = Ended(c, "KeyError", NoLine, EmptyMap)
               /\ UNCHANGED <<proof_searchs, n_success, returned>>
    /\ UNCHANGED <<hist, message_queue, fin, n_extra, n_run_tac, n_searches, call, env, pump>>

\* lean.py:85-86: the triple is in _hist, the reply comes from the tree.
RunStmtCached(via, search_id, state_id, tactic) ==
    /\ call.op = "idle"
    /\ InHist(hist, search_id, state_id, tactic)
    /\ LET c == [Idle EXCEPT !.op = "run_stmt", !.via = via, !.search_id = search_id,
                             !.state_id = state_id, !.tactic = tactic]
           result == cached_result(proof_searchs, search_id, state_id, tactic)
       IN IF CachedResultExists(proof_searchs, search_id, state_id, tactic)
          THEN /\ ret' = Ended(c, "none", result, EmptyMap)
               /\ returned' = Remember(returned, search_id, state_id, tactic, result)
          ELSE /\ ret' = Ended(c, "KeyError", NoLine, EmptyMap)
               /\ returned' = returned
    /\ UNCHANGED <<proof_searchs, hist, message_queue, fin, n_extra, n_run_tac, n_searches, call, n_success, env, pump>>

\* lean.py:83-88: the triple is not in _hist, the command is written.
RunStmtSend(via, search_id, state_id, tactic) ==
    /\ call.op = "idle"
    /\ ~InHist(hist, search_id, state_id, tactic)
    /\ WithinBudget(1)
    /\ n_run_tac' = n_run_tac + 1
    /\ fin' = send_flush(fin, Cmd("run_tac", Format(search_id), Format(state_id), tactic))
    /\ call' = Starting([Idle EXCEPT !.op = "run_stmt", !.via = via,
                                     !.search_id = search_id, !.state_id = state_id,
                                     !.tactic = tactic, !.writes = 1],
                         <<Cmd("run_tac", Format(search_id), Format(state_id), tactic)>>)
    /\ ret' = NoRet
    /\ UNCHANGED <<proof_searchs, hist, message_queue, n_extra, n_searches, n_success, env, returned, pump>>

\* lean.py:89-91: the reply is taken, decoded and applied.
RunStmtRecv ==
    /\ call.op = "run_stmt"
    /\ message_queue # <<>>
    /\ LET msg == Head(message_queue)
           c == [call EXCEPT !.reads = @ + 1]
           out == IF IsJson(msg)
                  THEN update_proof_search(proof_searchs, hist, call.search_id,
                                           call.state_id, call.tactic, msg)
                  ELSE Outcome("JSONDecodeError", proof_searchs, hist)
       IN /\ message_queue' = Tail(message_queue)
          /\ proof_searchs' = out.ps
          /\ hist' = out.hist
          /\ n_success' = Recorded(n_success, out, call.search_id, msg)
          /\ ret' = Ended(c, out.exc, IF out.exc = "none" THEN msg ELSE NoLine, EmptyMap)
          /\ returned' = IF out.exc = "none" /\ msg.error = NoneStr
                         THEN Remember(returned, call.search_id, call.state_id,
                                       call.tactic, msg)
                         ELSE returned
          /\ call' = Idle
    /\ UNCHANGED <<fin, n_extra, n_run_tac, n_searches, env, pump>>

\* ---------------------------------------------------------------- run_batch
\* One entry of the zip of search_ids, state_ids and tactics (lean.py:106).
Entry(s_id, tac_id, tac) == [s_id |-> s_id, tac_id |-> tac_id, tac |-> tac]
\* lean.py:100: the search ids are pairwise different (a str is no int).
Distinct(batch) ==
    \A i, j \in 1..Len(batch) : i # j => batch[i].s_id # batch[j].s_id

\* lean.py:107: ids_map, in insertion order, keyed by the search id as given,
\* holding the state id as an int.
IdsMap(batch) ==
    [i \in 1..Len(batch) |->
        [s_id |-> batch[i].s_id, state_id |-> Num(ToInt(batch[i].tac_id)),
         tactic |-> batch[i].tac]]
\* lean.py:108-109: one run_tac per entry, none waiting for a reply.
BatchCmds(batch) ==
    [i \in 1..Len(batch) |->
        Cmd("run_tac", Format(batch[i].s_id), Format(batch[i].tac_id), batch[i].tac)]

HasEntry(m, key) == \E i \in 1..Len(m) : m[i].s_id = key
EntryOf(m, key) == m[CHOOSE i \in 1..Len(m) : m[i].s_id = key]
DelEntry(m, key) == SelectSeq(m, LAMBDA e : e.s_id # key)

\* lean.py:100-110
RunBatchSend(batch) ==
    /\ call.op = "idle"
    /\ Distinct(batch)
    /\ WithinBudget(Len(batch))
    /\ n_run_tac' = n_run_tac + Len(batch)
    /\ fin' = fin \o BatchCmds(batch)
    /\ call' = Starting([Idle EXCEPT !.op = "run_batch",
                            !.ids_map = IdsMap(batch),
                            !.output = [k \in {batch[i].s_id : i \in 1..Len(batch)} |-> NoLine],
                            !.n_left = Len(batch),
                            !.writes = Len(batch)],
                         BatchCmds(batch))
    /\ ret' = NoRet
    /\ UNCHANGED <<proof_searchs, hist, message_queue, n_extra, n_searches, n_success, env, returned, pump>>

\* lean.py:100-101: the assertion fails, nothing was written.
RunBatchAssert(batch) ==
    /\ call.op = "idle"
    /\ ~Distinct(batch)
    /\ ret' = Ended([Idle EXCEPT !.op = "run_batch"], "AssertionError", NoLine, EmptyMap)
    /\ UNCHANGED <<proof_searchs, hist, message_queue, fin, n_extra, n_run_tac, n_searches, call, n_success, env, returned, pump>>

BatchOutcome(exc, ps, h, m, output, n) ==
    [exc |-> exc, ps |-> ps, hist |-> h, ids_map |-> m, output |-> output, n_success |-> n]

\* One reply of the batch matched with the oldest entry of ids_map, the reply's
\* search_id ignored: replies taken to arrive in the order of the commands.
BatchStepFifo(ps, h, m, output, n, result) ==
    IF ~IsJson(result) THEN BatchOutcome("JSONDecodeError", ps, h, m, output, n)
    ELSE IF m = <<>> THEN BatchOutcome("KeyError", ps, h, m, output, n)
    ELSE
      LET e == Head(m)
          out == update_proof_search(ps, h, e.s_id, e.state_id, e.tactic, result)
      IN IF out.exc # "none" THEN BatchOutcome(out.exc, ps, h, m, output, n)
         ELSE BatchOutcome("none", out.ps, out.hist, Tail(m),
                           Put(output, e.s_id, result),
                           Recorded(n, out, e.s_id, result))

\* lean.py:112-118: one reply of the batch, decoded and applied.
BatchStep(ps, h, m, output, n, result) ==
    IF ~IsJson(result) THEN BatchOutcome("JSONDecodeError", ps, h, m, output, n)
    ELSE IF result.search_id = NoneId THEN BatchOutcome("none", ps, h, m, output, n)
    ELSE
      LET search_id == Num(ToInt(result.search_id))
      IN IF ~HasEntry(m, search_id) THEN BatchOutcome("KeyError", ps, h, m, output, n)
         ELSE
           LET e == EntryOf(m, search_id)
               out == update_proof_search(ps, h, search_id, e.state_id, e.tactic, result)
           IN IF out.exc # "none" THEN BatchOutcome(out.exc, ps, h, m, output, n)
              ELSE BatchOutcome("none", out.ps, out.hist, DelEntry(m, search_id),
                                Put(output, search_id, result),
                                Recorded(n, out, search_id, result))

\* The fallback with line 121 left out: a session no reply named is counted in
\* n_failed_tactics only.
RECURSIVE BatchFallbackFailedOnly(_, _)
BatchFallbackFailedOnly(ps, m) ==
    IF m = <<>> THEN Outcome("none", ps, {})
    ELSE IF ~KeyIn(Head(m).s_id, ps) THEN Outcome("KeyError", ps, {})
    ELSE BatchFallbackFailedOnly(
            [ps EXCEPT ![Head(m).s_id[2]].n_failed_tactics = @ + 1],
            Tail(m))

\* lean.py:119-121: the sessions no reply named, in insertion order.
RECURSIVE BatchFallback(_, _)
BatchFallback(ps, m) ==
    IF m = <<>> THEN Outcome("none", ps, {})
    ELSE IF ~KeyIn(Head(m).s_id, ps) THEN Outcome("KeyError", ps, {})
    ELSE BatchFallback(
            [ps EXCEPT ![Head(m).s_id[2]].n_failed_tactics = @ + 1,
                       ![Head(m).s_id[2]].n_total_tactics = @ + 1],
            Tail(m))

\* lean.py:111-122: the replies are applied in the order they are read, then
\* the sessions left in ids_map are counted as failed and output is returned.
\* An exception ends the call where it is raised.
RECURSIVE BatchRun(_, _, _, _, _, _)
BatchRun(ps, h, m, output, n, replies) ==
    IF replies = <<>>
    THEN LET fb == BatchFallback(ps, m)
         IN BatchOutcome(fb.exc, fb.ps, h, m,
                         IF fb.exc = "none" THEN output ELSE EmptyMap, n)
    ELSE LET step == BatchStep(ps, h, m, output, n, Head(replies))
         IN IF step.exc # "none"
            THEN BatchOutcome(step.exc, step.ps, step.hist, step.ids_map, EmptyMap,
                              step.n_success)
            ELSE BatchRun(step.ps, step.hist, step.ids_map, step.output,
                          step.n_success, Tail(replies))

\* lean.py:111-122, one read at a time: a reply is taken and applied, and the
\* last of the N reads is followed by the rest of the call.
RunBatchRecv ==
    /\ call.op = "run_batch"
    /\ message_queue # <<>>
    /\ LET msg == Head(message_queue)
           c == [call EXCEPT !.reads = @ + 1,
                             !.first = IF call.reads = 0 THEN msg.search_id ELSE @]
           step == BatchStep(proof_searchs, hist, call.ids_map, call.output,
                             n_success, msg)
           rest == BatchRun(proof_searchs, hist, call.ids_map, call.output,
                            n_success, <<msg>>)
       IN /\ message_queue' = Tail(message_queue)
          /\ IF call.n_left = 1 \/ step.exc # "none"
             THEN /\ proof_searchs' = rest.ps
                  /\ hist' = rest.hist
                  /\ n_success' = rest.n_success
                  /\ ret' = Ended([c EXCEPT !.ids_map = rest.ids_map], rest.exc,
                                  NoLine, rest.output)
                  /\ call' = Idle
             ELSE /\ proof_searchs' = step.ps
                  /\ hist' = step.hist
                  /\ n_success' = step.n_success
                  /\ call' = [c EXCEPT !.ids_map = step.ids_map,
                                       !.output = step.output,
                                       !.n_left = @ - 1]
                  /\ ret' = ret
    /\ UNCHANGED <<fin, n_extra, n_run_tac, n_searches, env, returned, pump>>

\* ---------------------------------------------------------------- clear_search
\* lean.py:125
ClearSearchSend(search_id) ==
    /\ call.op = "idle"
    /\ fin' = send_flush(fin, Cmd("clear_search", Format(search_id), -1, ""))
    /\ call' = Starting([Idle EXCEPT !.op = "clear_search", !.search_id = search_id,
                                     !.writes = 1],
                         <<Cmd("clear_search", Format(search_id), -1, "")>>)
    /\ ret' = NoRet
    /\ UNCHANGED <<proof_searchs, hist, message_queue, n_extra, n_run_tac, n_searches, n_success, env, returned, pump>>

\* The loop condition with its first test only: a reply without an error
\* ends the loop.
ClearSearchReadsOnError(result) == result.error # NoneStr

\* lean.py:129-131: the loop reads on as long as this holds of the reply.
ClearSearchReadsOn(result) ==
    \/ result.error # NoneStr
    \/ result.tactic_state # NoneStr
    \/ result.tactic_state_id # NoneId

\* lean.py:138-145 on the reply that ended the loop.
ClearSearchFinish(ps, h, search_id, result) ==
    IF result.error # NoneStr THEN Outcome("RuntimeError", ps, h)
    ELSE IF ~KeyIn(search_id, ps) THEN Outcome("KeyError", ps, h)
    ELSE Outcome("none", Del(ps, search_id[2]), h)

\* lean.py:126-145: one reply is taken; the call waits for the next one or
\* deletes the session and returns.
ClearSearchRecv ==
    /\ call.op = "clear_search"
    /\ message_queue # <<>>
    /\ LET msg == Head(message_queue)
           c == [call EXCEPT !.reads = @ + 1,
                             !.n_msgs = IF call.reads = 0 THEN 0 ELSE @ + 1]
           out == ClearSearchFinish(proof_searchs, hist, call.search_id, msg)
       IN /\ message_queue' = Tail(message_queue)
          /\ IF ~IsJson(msg)
             THEN /\ ret' = Ended(c, "JSONDecodeError", NoLine, EmptyMap)
                  /\ call' = Idle
                  /\ UNCHANGED <<proof_searchs, n_success, returned>>
             ELSE IF ClearSearchReadsOn(msg)
             THEN /\ call' = c
                  /\ UNCHANGED <<proof_searchs, ret, n_success, returned>>
             ELSE /\ proof_searchs' = out.ps
                  /\ ret' = Ended(c, out.exc, IF out.exc = "none" THEN msg ELSE NoLine,
                                  EmptyMap)
                  /\ n_success' = IF out.exc = "none"
                                  THEN [n_success EXCEPT ![call.search_id[2]] = 0]
                                  ELSE n_success
                  /\ returned' = IF out.exc = "none"
                                 THEN Forget(returned, call.search_id[2])
                                 ELSE returned
                  /\ call' = Idle
    /\ UNCHANGED <<hist, fin, n_extra, n_run_tac, n_searches, env, pump>>

\* ---------------------------------------------------------------- LeanEnv
\* reset (env.py:105-117) with the declaration given at construction: the search
\* is initialised when there is none yet, otherwise _init_obs is returned as is.
Reset ==
    /\ env.search_id = NoneId \/ env.init_obs[1] = -1
    /\ InitSearchSend("reset")

ResetAgain ==
    /\ call.op = "idle"
    /\ ~(env.search_id = NoneId \/ env.init_obs[1] = -1)
    /\ ret' = Ended([Idle EXCEPT !.op = "reset", !.via = "reset"], "none", NoLine, EmptyMap)
    /\ UNCHANGED <<proof_searchs, hist, message_queue, fin, n_extra, n_run_tac, n_searches, call, n_success, env, returned, pump>>

\* _observation_from_cache (env.py:150-164): hit is whether it returned an
\* observation, exc the KeyError of a lookup.
observation_from_cache(ps, search_id, state_id, tactic) ==
    IF ~KeyIn(search_id, ps) THEN [exc |-> "KeyError", hit |-> FALSE, obs |-> FailedObs]
    ELSE
      LET states == ps[search_id[2]].states
      IN IF ~KeyIn(state_id, states)
         THEN [exc |-> "none", hit |-> FALSE, obs |-> FailedObs]
         ELSE IF "tactic" \notin DOMAIN states[state_id[2]]
         THEN [exc |-> "KeyError", hit |-> FALSE, obs |-> FailedObs]
         ELSE IF states[state_id[2]].tactic # tactic
         THEN [exc |-> "none", hit |-> FALSE, obs |-> FailedObs]
         ELSE IF "id_next" \notin DOMAIN states[state_id[2]]
         THEN [exc |-> "KeyError", hit |-> FALSE, obs |-> FailedObs]
         ELSE LET id_next == states[state_id[2]].id_next
                  text == states[id_next].state
              IN [exc |-> "none", hit |-> TRUE,
                  obs |-> [obs_id |-> id_next, obs_text |-> text,
                           reward |-> IF text = NoGoals THEN 1 ELSE 0,
                           done |-> text = NoGoals]]

\* step (env.py:60-64): the lookup in the tree ends the call, with an
\* observation or with the KeyError of the lookup.
StepFromCache(state_id, tactic) ==
    /\ call.op = "idle"
    /\ LET oc == observation_from_cache(proof_searchs, env.search_id, state_id, tactic)
           c == [Idle EXCEPT !.op = "step", !.via = "step", !.search_id = env.search_id,
                             !.state_id = state_id, !.tactic = tactic]
       IN /\ oc.exc # "none" \/ oc.hit
          /\ ret' = [Ended(c, oc.exc, NoLine, EmptyMap) EXCEPT !.obs = oc.obs]
    /\ UNCHANGED <<proof_searchs, hist, message_queue, fin, n_extra, n_run_tac, n_searches, call, n_success, env, returned, pump>>

\* step (env.py:65-69): no observation from the tree, run_stmt is called.
StepRunStmt(state_id, tactic) ==
    /\ LET oc == observation_from_cache(proof_searchs, env.search_id, state_id, tactic)
       IN oc.exc = "none" /\ ~oc.hit
    /\ \/ RunStmtCached("step", env.search_id, state_id, tactic)
       \/ RunStmtSend("step", env.search_id, state_id, tactic)

\* ---------------------------------------------------------------- specifications
\* The batches the caller runs: one or two searches, in the order of their ids,
\* the ids given as numbers.
Batches ==
    { <<Entry(Num(s), Num(st), t)>> : s \in SearchIds, st \in StateIds, t \in Tactics }
    \cup
    { <<Entry(Num(0), Num(st1), "tac_a"), Entry(Num(1), Num(st2), "tac_b")>> :
        st1 \in StateIds, st2 \in StateIds }
\* run_batch(["0","1"], ["0","0"], ["tac_a","tac_b"]): the ids given as text.
TextBatches ==
    { <<Entry(Txt(0), Txt(0), "tac_a"), Entry(Txt(1), Txt(0), "tac_b")>> }
\* A batch that names a search twice.
RepeatBatches ==
    { <<Entry(Num(s), Num(0), t), Entry(Num(s), Num(0), t)>> :
        s \in SearchIds, t \in Tactics }

\* The caller uses LeanInstance directly.  It starts a call that writes to the
\* process only when nothing is in flight.
Next ==
    \/ \E i \in 1..Len(fin) : \E l \in Answers(fin[i], {"txt"}) : LeanAnswer(i, l)
    \/ \E l \in {WarningLine} \cup { Error(e, NoneId) : e \in ErrMsgs } : LeanExtra(l)
    \/ Timeout
    \/ Quiet /\ InitSearchSend("api")
    \/ InitSearchRecv
    \/ \E s \in SearchIds, st \in StateIds, t \in Tactics :
          RunStmtCached("api", Num(s), Num(st), t)
    \/ \E s \in SearchIds, st \in StateIds, t \in Tactics :
          Quiet /\ RunStmtSend("api", Num(s), Num(st), t)
    \/ RunStmtRecv
    \/ \E b \in Batches \cup TextBatches : Quiet /\ RunBatchSend(b)
    \/ \E b \in RepeatBatches : RunBatchAssert(b)
    \/ RunBatchRecv
    \/ \E s \in SearchIds : Quiet /\ ClearSearchSend(Num(s))
    \/ ClearSearchRecv

Spec == Init /\ [][Next]_vars

\* The caller uses LeanEnv: reset, then step.  The process writes the search
\* id of a reply as text or as a number.
NextEnv ==
    \/ \E i \in 1..Len(fin) : \E l \in Answers(fin[i], Fmts) : LeanAnswer(i, l)
    \/ \E l \in {WarningLine} : LeanExtra(l)
    \/ Timeout
    \/ Quiet /\ Reset
    \/ ResetAgain
    \/ InitSearchRecv
    \/ \E st \in StateIds, t \in Tactics : StepFromCache(Num(st), t)
    \/ \E st \in StateIds, t \in Tactics : Quiet /\ StepRunStmt(Num(st), t)
    \/ RunStmtRecv

SpecEnv == Init /\ [][NextEnv]_vars

\* The caller uses LeanInstance directly and what run_stmt returned is tracked.
InitTracked ==
    /\ Constructed
    /\ returned = [tracked |-> TRUE, first |-> EmptyMap, calls |-> FALSE]

SpecTracked == InitTracked /\ [][Next]_vars

\* The caller uses LeanInstance directly and every call keeps the command it
\* wrote last and the store of its start.
InitCalls ==
    /\ Constructed
    /\ returned = [tracked |-> FALSE, first |-> EmptyMap, calls |-> TRUE]

SpecCalls == InitCalls /\ [][Next]_vars

\* The operations that write to the process.
Operations == {"init_search", "run_stmt", "run_batch", "clear_search"}

\* The caller uses LeanInstance directly and may call kill between two calls.
NextKill ==
    \/ Next
    \/ Kill
    \/ \E op \in Operations : SendBroken(op)

SpecKill == Init /\ [][NextKill]_vars

\* n more commands keep what is in flight within MaxPending.
CanWrite(n) == Len(fin) + Len(message_queue) + n <= MaxPending

\* The caller uses LeanInstance directly and goes on after a call that failed:
\* it starts calls while commands of earlier calls are unanswered or their
\* replies are still queued.  The process answers its commands in the order it
\* read them.
NextLate ==
    \/ \E l \in IF fin = <<>> THEN {} ELSE Answers(fin[1], {"txt"}) : LeanAnswer(1, l)
    \/ \E l \in { Error(e, NoneId) : e \in ErrMsgs } : LeanExtra(l)
    \/ Timeout
    \/ CanWrite(1) /\ InitSearchSend("api")
    \/ InitSearchRecv
    \/ \E s \in SearchIds, st \in StateIds, t \in Tactics :
          CanWrite(1) /\ RunStmtSend("api", Num(s), Num(st), t)
    \/ RunStmtRecv
    \/ \E b \in Batches : CanWrite(Len(b)) /\ RunBatchSend(b)
    \/ RunBatchRecv
    \/ \E s \in SearchIds : CanWrite(1) /\ ClearSearchSend(Num(s))
    \/ ClearSearchRecv

SpecLate == Init /\ [][NextLate]_vars

\* The caller starts searches, runs tactics and clears searches; ahead of the
\* reply that ends clear_search the process prints errors and tactic states.
NextClear ==
    \/ \E i \in 1..Len(fin) : \E l \in Answers(fin[i], {"txt"}) : LeanAnswer(i, l)
    \/ \E l \in IF fin = <<>> THEN {} ELSE ExtraLines(fin[1]) : LeanExtra(l)
    \/ Timeout
    \/ Quiet /\ InitSearchSend("api")
    \/ InitSearchRecv
    \/ \E s \in SearchIds, st \in StateIds, t \in Tactics :
          Quiet /\ RunStmtSend("api", Num(s), Num(st), t)
    \/ RunStmtRecv
    \/ \E s \in SearchIds : Quiet /\ ClearSearchSend(Num(s))
    \/ ClearSearchRecv

SpecClear == Init /\ [][NextClear]_vars

\* The pump thread, the process's output and kill, step by step; the caller
\* takes lines off the queue.  The threads are scheduled fairly: a step of the
\* pump or of kill that stays possible is taken.
NextPump ==
    \/ \E kind \in {"reply", "blank"} : LeanWrites(kind)
    \/ LeanExits
    \/ PumpAcquire
    \/ PumpReadline
    \/ KillTerminate
    \/ KillRelease
    \/ GetMessage

SpecPump ==
    /\ Init /\ [][NextPump]_vars
    /\ WF_vars(PumpAcquire) /\ WF_vars(PumpReadline)
    /\ WF_vars(KillRelease)

\* ---------------------------------------------------------------- claims
\* C1 (cache correctness).  Once run_stmt(s, st, t) has returned a success reply
\* with (id, text), a run_stmt(s, st, t) call made in any later state in which
\* session s is still in the store takes the cached path, which writes nothing
\* to the process, and returns that same (id, text).
C1_CacheCorrectness ==
    \A k \in DOMAIN returned.first :
        /\ InHist(hist, Num(k[1]), Num(k[2]), k[3])
        /\ CachedResultExists(proof_searchs, Num(k[1]), Num(k[2]), k[3])
        /\ LET result == cached_result(proof_searchs, Num(k[1]), Num(k[2]), k[3])
           IN <<ToInt(result.tactic_state_id), result.tactic_state>> = returned.first[k]

\* C2 (tree invariant).  In every reachable state each session has exactly one
\* state whose predecessor list is empty (the root init_search created), so
\* every other state has a predecessor, whatever state ids the process returns.
C2_TreeInvariant ==
    \A s \in DOMAIN proof_searchs :
        Cardinality({ i \in DOMAIN proof_searchs[s].states :
                        proof_searchs[s].states[i].id_prev = <<>> }) = 1

\* C3 (counter invariant).  After every step, for every session in the store,
\* n_total_tactics = n_failed_tactics + the success replies recorded for it and
\* n_failed_tactics <= n_total_tactics; and no step decreases either counter of
\* a session that stays in the store.
C3_CounterInvariant ==
    [][ /\ \A s \in DOMAIN proof_searchs' :
             /\ proof_searchs'[s].n_total_tactics
                  = proof_searchs'[s].n_failed_tactics + n_success'[s]
             /\ proof_searchs'[s].n_failed_tactics <= proof_searchs'[s].n_total_tactics
        /\ \A s \in DOMAIN proof_searchs \cap DOMAIN proof_searchs' :
             /\ proof_searchs'[s].n_total_tactics >= proof_searchs[s].n_total_tactics
             /\ proof_searchs'[s].n_failed_tactics >= proof_searchs[s].n_failed_tactics
      ]_vars
\* A run_batch has returned after counting an unmatched session as failed, in
\* a session that also has a recorded success.
C3_Witness ==
    /\ ret.op = "run_batch" /\ ret.exc = "none" /\ ret.ids_map # <<>>
    /\ \E s \in DOMAIN proof_searchs :
          /\ n_success[s] >= 1
          /\ proof_searchs[s].n_failed_tactics >= 1
          /\ HasEntry(ret.ids_map, Num(s))

\* The run_tac command run_batch wrote for entry e of ids_map, and the replies
\* the process may give to the two commands of a batch of two.
EntryCmd(e) == Cmd("run_tac", Format(e.s_id), Format(e.state_id), e.tactic)
ReplyPairs(m) ==
    { <<a, b>> : a \in Answers(EntryCmd(m[1]), Fmts), b \in Answers(EntryCmd(m[2]), Fmts) }
\* run_batch has written the commands of a batch of two and read nothing yet;
\* both entries name, as a number or as text, a session of the store and a
\* state of it.
BatchOfTwoSent ==
    /\ call.op = "run_batch" /\ call.reads = 0 /\ Len(call.ids_map) = 2
    /\ \A i \in 1..2 :
          /\ ToInt(call.ids_map[i].s_id) \in DOMAIN proof_searchs
          /\ ToInt(call.ids_map[i].state_id)
                \in DOMAIN proof_searchs[ToInt(call.ids_map[i].s_id)].states
\* The search ids of the batch were given as ints, as the store has them.
GivenAsInts(m) == \A i \in 1..Len(m) : m[i].s_id[1] = "num"
\* What the call leaves when the replies arrive in this order.
AfterReplies(replies) ==
    BatchRun(proof_searchs, hist, call.ids_map, call.output, n_success, replies)
\* Entry a got the error reply ra and entry b the success reply rb, and out is
\* what the call left: a's failure is counted and a has no new state or edge,
\* b's edge and successor are recorded.  The error text is in a's
\* failed_tactics when text(ra) holds, and failed_tactics is as before otherwise.
ErrorAndSuccessRecorded(out, a, ra, b, rb, text(_)) ==
    LET sa == a.s_id[2]
        sb == b.s_id[2]
        next == ToInt(rb.tactic_state_id)
    IN /\ out.exc = "none"
       /\ out.ps[sa].n_failed_tactics = proof_searchs[sa].n_failed_tactics + 1
       /\ out.ps[sa].states = proof_searchs[sa].states
       /\ IF text(ra)
          THEN /\ a.tactic \in DOMAIN out.ps[sa].failed_tactics
               /\ out.ps[sa].failed_tactics[a.tactic] = ra.error
          ELSE out.ps[sa].failed_tactics = proof_searchs[sa].failed_tactics
       /\ b.tactic \in DOMAIN out.ps[sb].states[b.state_id[2]].tactic_to_next_id
       /\ out.ps[sb].states[b.state_id[2]].tactic_to_next_id[b.tactic] = next
       /\ next \in DOMAIN out.ps[sb].states
       /\ out.ps[sb].states[next].state = rb.tactic_state
       /\ out.ps[sb].n_failed_tactics = proof_searchs[sb].n_failed_tactics
BatchIsolation(text(_), ids(_)) ==
    BatchOfTwoSent =>
        \A r \in ReplyPairs(call.ids_map) :
            /\ AfterReplies(<<r[1], r[2]>>) = AfterReplies(<<r[2], r[1]>>)
            /\ \A i \in 1..2 :
                  ids(call.ids_map) /\ r[i].error # NoneStr /\ r[3 - i].error = NoneStr =>
                      ErrorAndSuccessRecorded(AfterReplies(<<r[2], r[1]>>),
                                              call.ids_map[i], r[i],
                                              call.ids_map[3 - i], r[3 - i], text)

\* C4 (batch isolation).  For a run_batch over two distinct sessions of the
\* store, each entry naming a state of its session, what the
\* call leaves (store, _hist, returned mapping, exception) is the same for both
\* arrival orders of the two replies; and when one session's reply is an error
\* and the other's a success, the first ends with its failure counted, the
\* error text in its failed_tactics and no new state or edge, and the second
\* with its edge and successor state recorded.
C4_BatchIsolation == BatchIsolation(LAMBDA ra : TRUE, LAMBDA m : TRUE)
\* C4 as the code has it: both arrival orders leave the same; the error and
\* the success are recorded as said when the search ids were given as ints, and
\* then the error text is in failed_tactics only when the error reply carries
\* the search id of its session: an error reply without search id is counted by
\* the fallback of lean.py:119-121, which leaves failed_tactics as it was.
C4_BatchIsolationAmended ==
    BatchIsolation(LAMBDA ra : ra.search_id # NoneId, GivenAsInts)
\* A batch of two has returned a mapping after the reply of its second session
\* arrived first, the first session's reply being an error and the second's a
\* success.
C4_Witness ==
    /\ ret.op = "run_batch" /\ ret.exc = "none" /\ ret.reads = 2
    /\ ret.first = Txt(1)
    /\ DOMAIN ret.output = {Num(0), Num(1)}
    /\ ret.output[Num(0)].error # NoneStr /\ ret.output[Num(0)].kind = "json"
    /\ ret.output[Num(1)].error = NoneStr /\ ret.output[Num(1)].kind = "json"
    /\ proof_searchs[0].n_failed_tactics = 1
    /\ proof_searchs[1].states[0].tactic_to_next_id # EmptyMap

\* C5 (warning skip).  While init_search waits for the handshake reply the store
\* and what the caller holds do not change; every line it reads that contains
\* 'warning:' is discarded and counted and the call goes on waiting; the first
\* other line it reads ends the call, which has then read its warnings and
\* exactly one further line, returns that line decoded, and leaves the store
\* that a handshake reading this line first (k = 0) leaves.
C5_WarningSkip ==
    [][ call.op = "init_search" =>
          LET line == Head(message_queue)
              read == message_queue # <<>> /\ message_queue' = Tail(message_queue)
          IN IF read /\ line.kind = "warning"
             THEN /\ call'.op = "init_search"
                  /\ call'.n_warn = call.n_warn + 1
                  /\ call'.reads = call.reads + 1
                  /\ UNCHANGED <<proof_searchs, hist, ret, env>>
             ELSE IF read
             THEN /\ call'.op = "idle"
                  /\ ret'.exc = "none"
                  /\ ret'.n_warn = call.n_warn
                  /\ ret'.reads = call.n_warn + 1
                  /\ ret'.value = line
                  /\ proof_searchs' = InitSearchStore(proof_searchs, hist, line).ps
                  /\ hist' = hist
             ELSE /\ UNCHANGED <<proof_searchs, hist>>
                  /\ call'.op = "init_search" => UNCHANGED <<call, ret>>
      ]_vars
\* init_search has returned a success reply after discarding two warnings.
C5_Witness ==
    /\ ret.op = "init_search" /\ ret.exc = "none"
    /\ ret.n_warn = 2 /\ ret.reads = 3
    /\ ret.value.error = NoneStr
    /\ ToInt(ret.value.search_id) \in DOMAIN proof_searchs

\* The edges of a states map: (state_id, tactic, next_id).
Edges(states) ==
    UNION { { <<st, t, states[st].tactic_to_next_id[t]>> :
                t \in DOMAIN states[st].tactic_to_next_id } : st \in DOMAIN states }
\* The tactic application of session s that the call in progress waits for.
Application(s) ==
    IF call.op = "run_stmt" THEN <<call.state_id[2], call.tactic>>
    ELSE LET e == EntryOf(call.ids_map, Num(s)) IN <<e.state_id[2], e.tactic>>

\* C6 (edges).  A step in which a reply with error = null is recorded for an
\* application (state_id, tactic) of a session sets the edge of that
\* application to the reply's state id and changes no other edge of the
\* session; every other step, the processing of a reply with a non-null error
\* through run_stmt or run_batch included, leaves the session's states map as
\* it was; and a session is created without edges.
C6_EdgeIffSuccess ==
    [][ /\ \A s \in DOMAIN proof_searchs \cap DOMAIN proof_searchs' :
             LET before == proof_searchs[s].states
                 after == proof_searchs'[s].states
                 reply == Head(message_queue)
             IN IF n_success'[s] = n_success[s] + 1
                THEN /\ call.op \in {"run_stmt", "run_batch"}
                     /\ reply.error = NoneStr
                     /\ Edges(after) =
                          { e \in Edges(before) :
                              <<e[1], e[2]>> # Application(s) }
                          \cup { <<Application(s)[1], Application(s)[2],
                                   ToInt(reply.tactic_state_id)>> }
                ELSE after = before
        /\ \A s \in DOMAIN proof_searchs' \ DOMAIN proof_searchs :
             Edges(proof_searchs'[s].states) = {}
        /\ \A s \in DOMAIN proof_searchs :
             ( /\ call.op \in {"run_stmt", "run_batch"}
               /\ message_queue # <<>> /\ message_queue' = Tail(message_queue)
               /\ Head(message_queue).error # NoneStr )
             => /\ s \in DOMAIN proof_searchs'
                /\ proof_searchs'[s].states = proof_searchs[s].states
      ]_vars
\* A session holds an edge and a recorded failure: a success reply and an
\* error reply were processed for it.
C6_Witness ==
    \E s \in DOMAIN proof_searchs :
        /\ Edges(proof_searchs[s].states) # {}
        /\ proof_searchs[s].failed_tactics # EmptyMap
        /\ proof_searchs[s].n_failed_tactics >= 1

\* C7 (handshake outcome).  When init_search reads its handshake reply: if the
\* reply carries a non-null error the store is left as it was and the reply is
\* returned as decoded; if its error is null the store gains exactly the session
\* keyed by the reply's search id, every other session is as it was, and that
\* session holds one state, keyed by the reply's state id, with the reply's
\* text, no predecessor and no edge, both counters zero and no failed tactic.
C7_HandshakeOutcome ==
    [][ ( /\ call.op = "init_search"
          /\ message_queue # <<>> /\ message_queue' = Tail(message_queue)
          /\ Head(message_queue).kind = "json" )
        => LET reply == Head(message_queue)
               sid == ToInt(reply.search_id)
               root == ToInt(reply.tactic_state_id)
           IN /\ ret'.op = "init_search" /\ ret'.exc = "none" /\ ret'.value = reply
              /\ IF reply.error # NoneStr
                 THEN proof_searchs' = proof_searchs
                 ELSE /\ DOMAIN proof_searchs' = DOMAIN proof_searchs \cup {sid}
                      /\ \A s \in DOMAIN proof_searchs \ {sid} :
                            proof_searchs'[s] = proof_searchs[s]
                      /\ DOMAIN proof_searchs'[sid].states = {root}
                      /\ proof_searchs'[sid].states[root].id_prev = <<>>
                      /\ proof_searchs'[sid].states[root].state = reply.tactic_state
                      /\ proof_searchs'[sid].states[root].tactic_to_next_id = EmptyMap
                      /\ proof_searchs'[sid].n_failed_tactics = 0
                      /\ proof_searchs'[sid].n_total_tactics = 0
                      /\ proof_searchs'[sid].failed_tactics = EmptyMap
      ]_vars
\* init_search has returned an error reply while the store holds a session
\* with a recorded tactic, after it had returned a success reply.
C7_Witness ==
    /\ ret.op = "init_search" /\ ret.exc = "none" /\ ret.value.error # NoneStr
    /\ n_searches = 1
    /\ 0 \in DOMAIN proof_searchs
    /\ proof_searchs[0].n_total_tactics >= 1

\* C8 (teardown failure).  When clear_search(s) reads a reply that carries a
\* non-null error, the call ends there, without waiting for a further reply:
\* it fails with that error, and s is no longer in the store.
C8_TeardownFailure ==
    [][ ( /\ call.op = "clear_search"
          /\ message_queue # <<>> /\ message_queue' = Tail(message_queue)
          /\ Head(message_queue).kind = "json"
          /\ Head(message_queue).error # NoneStr )
        => /\ call'.op = "idle"
           /\ ret'.op = "clear_search" /\ ret'.exc = "RuntimeError"
           /\ call.search_id[2] \notin DOMAIN proof_searchs'
      ]_vars

\* C9 (step reward).  When LeanEnv.step was called on a state of the current
\* session, it returned an observation, with reward 1 and done exactly when
\* the text of the observation is "no goals", and reward 0 and not done
\* otherwise.
C9_StepReward ==
    ( /\ ret.via = "step" /\ ret.op \in {"step", "run_stmt"}
      /\ KeyIn(env.search_id, proof_searchs)
      /\ KeyIn(ret.state_id, proof_searchs[env.search_id[2]].states) )
    => /\ ret.exc = "none"
       /\ ret.obs.reward = (IF ret.obs.obs_text = NoGoals THEN 1 ELSE 0)
       /\ ret.obs.done = (ret.obs.obs_text = NoGoals)

\* C10 (identifier normalization in batches).  When run_batch was called with
\* the ids of two sessions of the store given as text and the reply of its
\* second session was read first, the call returned a mapping with a reply for
\* each of the two and both sessions have the tactic counted: it did not fail
\* on a missing correlation entry.
C10_BatchIdNormalization ==
    ( /\ ret.op = "run_batch"
      /\ \/ \E i \in 1..Len(ret.ids_map) : ret.ids_map[i].s_id[1] = "txt"
         \/ \E k \in DOMAIN ret.output : k[1] = "txt"
      /\ {0, 1} \subseteq DOMAIN proof_searchs
      /\ ret.first = Txt(1) )
    => /\ ret.exc = "none"
       /\ \A k \in DOMAIN ret.output : ret.output[k].kind = "json"
       /\ \A s \in {0, 1} : proof_searchs[s].n_total_tactics >= 1

\* C11 (timeout).  When no line arrives within the read timeout the call in
\* progress (run_stmt, init_search, run_batch, clear_search) ends with queue.Empty;
\* the claim is that the error value carries the last command the call wrote and
\* that the store is the store of the start of the call.
C11_TimeoutCarriesCommand ==
    [][(call.op # "idle" /\ call'.op = "idle" /\ ret'.exc = "Empty")
        => /\ \E i \in 1..Len(ret'.args) :
                 ret'.args[i] = CmdText(call.cmds[Len(call.cmds)])
           /\ proof_searchs' = call.before]_vars

\* The second half alone: the store after a timeout is the store of the start
\* of the call.
C11_TimeoutKeepsStore ==
    [][(call.op # "idle" /\ call'.op = "idle" /\ ret'.exc = "Empty")
        => proof_searchs' = call.before]_vars

\* C12 (kill is terminal).  After kill() has returned no init_search, run_stmt,
\* run_batch or clear_search call returns normally, run_stmt calls on triples
\* recorded before the kill included, and no step changes the store.
C12_KillIsTerminal ==
    [][pump.kill = "returned"
        => /\ proof_searchs' = proof_searchs
           /\ (ret' # ret /\ ret'.op \in Operations) => ret'.exc # "none"]_vars

\* C13 (request/reply pairing).  The reply run_stmt or init_search returns and
\* applies is the reply to the command that call wrote: when the call wrote its
\* command, no command of an earlier call was unanswered and no line of an
\* earlier call was queued ahead of its reply.
C13_RequestReplyPairing ==
    [][(call.op \in {"run_stmt", "init_search"} /\ call'.op = "idle"
        /\ call.reads + 1 = ret'.reads /\ ret'.exc = "none"
        /\ proof_searchs' # proof_searchs)
        => call.ahead = 0]_vars

\* C14 (outgoing entries are permanent).  While session s is in the store, no
\* step removes an entry tactic -> next_id of one of its states or changes its
\* next_id, and the text recorded for next_id stays as it is.
C14_OutgoingPermanent ==
    [][\A s \in DOMAIN proof_searchs \cap DOMAIN proof_searchs' :
         \A st \in DOMAIN proof_searchs[s].states :
           \A t \in DOMAIN proof_searchs[s].states[st].tactic_to_next_id :
             LET next_id == proof_searchs[s].states[st].tactic_to_next_id[t]
                 after == proof_searchs'[s].states
             IN /\ st \in DOMAIN after
                /\ t \in DOMAIN after[st].tactic_to_next_id
                /\ after[st].tactic_to_next_id[t] = next_id
                /\ next_id \in DOMAIN after
                /\ after[next_id].state = proof_searchs[s].states[next_id].state]_vars

\* The first half alone: an entry stays, with its next_id.
C14_EntryKept ==
    [][\A s \in DOMAIN proof_searchs \cap DOMAIN proof_searchs' :
         \A st \in DOMAIN proof_searchs[s].states :
           \A t \in DOMAIN proof_searchs[s].states[st].tactic_to_next_id :
             /\ st \in DOMAIN proof_searchs'[s].states
             /\ t \in DOMAIN proof_searchs'[s].states[st].tactic_to_next_id
             /\ proof_searchs'[s].states[st].tactic_to_next_id[t]
                   = proof_searchs[s].states[st].tactic_to_next_id[t]]_vars

\* C15 (predecessor recording is idempotent).  In every reachable state no
\* predecessor list holds the same state id more than once.
C15_PredecessorsDistinct ==
    \A s \in DOMAIN proof_searchs :
        \A st \in DOMAIN proof_searchs[s].states :
            LET id_prev == proof_searchs[s].states[st].id_prev
            IN \A i, j \in 1..Len(id_prev) : i # j => id_prev[i] # id_prev[j]

\* The first half: a success reply for an edge (prior, tactic) -> state_id that
\* is already recorded leaves the predecessors of state_id as they are.
C15_RecordingIdempotent ==
    [][\A s \in DOMAIN proof_searchs \cap DOMAIN proof_searchs' :
         \A st \in DOMAIN proof_searchs[s].states :
           \A t \in DOMAIN proof_searchs[s].states[st].tactic_to_next_id :
             LET state_id == proof_searchs[s].states[st].tactic_to_next_id[t]
             IN (/\ call.op = "run_batch" /\ message_queue # <<>>
                 /\ Head(message_queue).error = NoneStr
                 /\ Head(message_queue).tactic_state_id = Txt(state_id)
                 /\ HasEntry(call.ids_map, Num(s))
                 /\ EntryOf(call.ids_map, Num(s)).state_id = Num(st)
                 /\ EntryOf(call.ids_map, Num(s)).tactic = t
                 /\ state_id \in DOMAIN proof_searchs[s].states)
                => proof_searchs'[s].states[state_id].id_prev
                     = proof_searchs[s].states[state_id].id_prev]_vars

\* C16 (a cached run_stmt changes nothing).  A run_stmt call that finds its
\* triple in _hist returns (or raises the KeyError of the lookup) without
\* update_proof_search: states, predecessors, outgoing maps, counters and
\* failed_tactics of every session, _hist and the message queue are as before,
\* and no command is written.
C16_CachedCallFrame ==
    [][(call.op = "idle" /\ call'.op = "idle" /\ ret' # ret /\ ret'.op = "run_stmt")
        => /\ ret'.writes = 0 /\ ret'.reads = 0
           /\ UNCHANGED <<proof_searchs, hist, message_queue, fin, n_run_tac>>]_vars

\* A run_stmt call was served from the tree.
C16_Witness ==
    /\ ret.op = "run_stmt" /\ ret.exc = "none"
    /\ ret.writes = 0 /\ ret.reads = 0
    /\ ret.value.kind = "json" /\ ret.value.error = NoneStr

\* C17 (batch fallback).  run_batch writes its N commands before it reads a
\* reply.  When it returns it has read N replies; every session of the batch
\* that no reply named has n_failed_tactics and n_total_tactics one higher than
\* at the start of the call and its states as they were, every session a reply
\* named was updated once, the sessions outside the batch are as they were, and
\* the keys of the mapping returned are the N session ids of the batch.
C17_BatchFallback ==
    [][/\ (call.op = "idle" /\ call'.op = "run_batch")
          => /\ call'.reads = 0 /\ call'.writes = Len(call'.cmds)
             /\ fin' = fin \o call'.cmds
             /\ message_queue' = message_queue
       /\ (call.op = "run_batch" /\ call'.op = "idle" /\ ret'.exc = "none")
          => LET N == Len(call.cmds)
                 batch == { call.cmds[i].search_id : i \in 1..N }
                 left == { ret'.ids_map[i].s_id[2] : i \in 1..Len(ret'.ids_map) }
             IN /\ ret'.reads = N /\ ret'.writes = N
                /\ { k[2] : k \in DOMAIN ret'.output } = batch
                /\ Cardinality(DOMAIN ret'.output) = N
                /\ batch \subseteq DOMAIN call.before
                /\ DOMAIN proof_searchs' = DOMAIN call.before
                /\ \A s \in DOMAIN call.before \ batch :
                      proof_searchs'[s] = call.before[s]
                /\ \A s \in batch :
                      /\ proof_searchs'[s].n_total_tactics
                            = call.before[s].n_total_tactics + 1
                      /\ s \in left
                            => /\ proof_searchs'[s].n_failed_tactics
                                     = call.before[s].n_failed_tactics + 1
                               /\ proof_searchs'[s].states = call.before[s].states
                               /\ ret'.output[Num(s)] = NoLine
                      /\ s \notin left
                            => /\ ret'.output[Num(s)] # NoLine
                               /\ ToInt(ret'.output[Num(s)].search_id) = s]_vars

\* A batch of two returned: a reply named one of its sessions, none the other.
C17_Witness ==
    /\ ret.op = "run_batch" /\ ret.exc = "none"
    /\ ret.reads = 2 /\ ret.writes = 2
    /\ Len(ret.ids_map) = 1
    /\ \E k \in DOMAIN ret.output : ret.output[k] # NoLine

\* C18 (clear_search).  Every read of clear_search(s) takes one reply off the
\* queue.  A reply that is not terminal (error, tactic_state or tactic_state_id
\* not null) is passed over: the call reads on and the store is unchanged.  The
\* first terminal reply ends the call and nothing after it is taken: when s is in
\* the store the call returns, s is gone and every other session is as it
\* was; when s is not in the store (it was cleared before) the call raises and
\* the store is unchanged.
C18_ClearSearch ==
    [][(call.op = "clear_search" /\ Len(message_queue') < Len(message_queue)
        /\ IsJson(Head(message_queue)))
        => LET msg == Head(message_queue)
               s == call.search_id[2]
               terminal == /\ msg.error = NoneStr
                           /\ msg.tactic_state = NoneStr
                           /\ msg.tactic_state_id = NoneId
           IN /\ message_queue' = Tail(message_queue)
              /\ ~terminal => /\ call'.op = "clear_search"
                              /\ call'.search_id = call.search_id
                              /\ proof_searchs' = proof_searchs
                              /\ ret' = ret
              /\ terminal => /\ call'.op = "idle"
                             /\ ret'.op = "clear_search"
                             /\ ret'.reads = call.reads + 1
              /\ (terminal /\ s \in DOMAIN proof_searchs)
                    => /\ ret'.exc = "none" /\ ret'.value = msg
                       /\ DOMAIN proof_searchs' = DOMAIN proof_searchs \ {s}
                       /\ \A o \in DOMAIN proof_searchs' :
                             proof_searchs'[o] = proof_searchs[o]
              /\ (terminal /\ s \notin DOMAIN proof_searchs)
                    => /\ ret'.exc = "KeyError"
                       /\ proof_searchs' = proof_searchs]_vars

\* clear_search returned after it passed over a reply that was not terminal,
\* and another session is still in the store.
C18_Witness ==
    /\ ret.op = "clear_search" /\ ret.exc = "none"
    /\ ret.reads >= 2 /\ ret.n_msgs >= 1
    /\ DOMAIN proof_searchs # {}

\* clear_search of a session that was cleared before raised KeyError.
C18_SecondClearFailed ==
    /\ ret.op = "clear_search" /\ ret.exc = "KeyError"
    /\ n_searches = 1 /\ proof_searchs = EmptyMap

\* C19 (pump shutdown).  Once kill() has been called the pump thread ends:
\* whether it was blocked in readline, between two iterations, or had ended
\* with the stream already.
C19_PumpShutdown == (pump.kill # "no") ~> (pump.pc = "done")

\* kill has returned and the pump thread has ended, after the process wrote lines.
C19_Witness ==
    /\ pump.kill = "returned"
    /\ pump.pc = "done"
    /\ pump.emitted > 0

\* The lines the caller has taken and the lines on the queue are the replies the
\* process wrote, each once, in the order it wrote them.
InOrder(lines) ==
    \A i, j \in 1..Len(lines) : i < j => lines[i].n < lines[j].n

\* C20 (pump delivery).  The pump stops only after the stop signal or the end
\* of the stream, never while the process runs and kill has not been called,
\* and the caller takes the lines in the order the process wrote them, each once.
C20_PumpDelivery ==
    /\ pump.pc = "done" => (pump.kill # "no" \/ ~pump.alive)
    /\ InOrder(pump.taken \o message_queue \o pump.pipe)

\* The second half alone.
C20_LinesInOrder == InOrder(pump.taken \o message_queue \o pump.pipe)

\* C21 (cache/tree agreement).  In every reachable state a triple (search_id,
\* state_id, tactic) is in _hist if and only if the session is in the store,
\* state_id is one of its states and tactic is a key of that state's
\* tactic_to_next_id whose target is a state of the session: a cache hit
\* resolves to a recorded edge.
C21_CacheTreeAgreement ==
    /\ \A k \in hist :
          CachedResultExists(proof_searchs, Num(k[1]), Num(k[2]), k[3])
    /\ \A s \in DOMAIN proof_searchs :
          \A st \in DOMAIN proof_searchs[s].states :
            \A t \in DOMAIN proof_searchs[s].states[st].tactic_to_next_id :
                InHist(hist, Num(s), Num(st), t)

\* The direction from the tree to _hist alone: every recorded edge is in _hist.
C21_EdgesInHist ==
    \A s \in DOMAIN proof_searchs :
        \A st \in DOMAIN proof_searchs[s].states :
            \A t \in DOMAIN proof_searchs[s].states[st].tactic_to_next_id :
                InHist(hist, Num(s), Num(st), t)

====
